---- MODULE Spec2Model ----
(***************************************************************************)
(* Model of the qr_app background worker (src/src/lib.rs) and of the       *)
(* producer side that feeds it (src/src/main.rs).                          *)
(*                                                                         *)
(* Two threads exist.  The main thread owns the BackgroundThreadCommuni-   *)
(* cator, every rc::Weak handle and every upgraded Rc (Rc is not Send), so *)
(* get_weak_sender, generate_qr_code, stop_sender and join are steps of    *)
(* one sequential process.  The worker thread runs work_when_available;    *)
(* its steps are the channel operations and the collaborator calls, and    *)
(* they interleave freely with the main thread's steps.                    *)
(***************************************************************************)
EXTENDS Integers, Sequences, FiniteSets, TLC

\* Bounds of the model.
MaxSends == 3      \* invocations of generate_qr_code
MaxData == 2       \* longest payload (in abstract length units)
MaxWeak == 1       \* weak handles obtained through get_weak_sender

VARIABLES
    comm,        \* "alive": the Communicator exists; "shut": stop_sender returned; "joined"
    strong,      \* strong count of Rc<Sender<QrGenerationRequest>>
    weak,        \* number of rc::Weak handles in existence
    chan,        \* the mpsc channel: requests sent and not yet received
    rxAlive,     \* the Receiver exists (it is dropped when the worker returns)
    ppc,         \* position of the main thread inside generate_qr_code
    preq,        \* the request generate_qr_code is about to send
    wpc,         \* position of the worker inside work_when_available
    qr_gen_req,  \* the worker's candidate request
    pix_buffer_result, \* the Result handed to the callback
    nattempts,   \* history: invocations of generate_qr_code
    sent,        \* history: every request enqueued, in enqueue order
    calls,       \* history: callback invocations, in order
    generated,   \* history: ids passed to new_qr_code_image, in order
    rendered,    \* history: ids for which to_pixmap ran
    discarded,   \* history: ids replaced during a drain
    inflight,    \* history: ids whose generation started and whose callback has not returned
    drainBegin,  \* history: number of requests enqueued when the first try_recv ran (0: none yet)
    atStop,      \* history: the ids in flight when stop_sender was called
    log          \* history: records written through the log macros

vars == <<comm, strong, weak, chan, rxAlive, ppc, preq, wpc, qr_gen_req,
          pix_buffer_result, nattempts, sent, calls, generated, rendered,
          discarded, inflight, drainBegin, atStop, log>>

mainVars == <<comm, strong, weak, ppc, preq, nattempts, atStop>>
workerVars == <<wpc, qr_gen_req, pix_buffer_result, calls, generated, rendered, discarded,
                inflight, drainBegin, rxAlive>>

NoReq == [id |-> 0, data |-> 0, correction_level |-> "None"]
NoResult == [ok |-> FALSE, val |-> "unset"]

\* slint's EcLevel and its conversion to Option<fast_qr::ECL>.
EcLevel == {"Default", "L", "M", "Q", "H"}
to_qr_enum(ec) == IF ec = "Default" THEN "None" ELSE ec

\* The payload lengths submitted in this model: the longest only, which the
\* builder accepts at the default level and rejects at level H.
DataLens == {MaxData}

\* The levels the ui callback is invoked with in this model.
EcInputs == {"Default", "H"}

\* Payload capacity of the largest symbol per error correction level,
\* scaled down; without a level the builder falls back to the lowest one.
Capacity(ecl) ==
    CASE ecl = "L" -> 4
      [] ecl = "M" -> 3
      [] ecl = "Q" -> 2
      [] ecl = "H" -> 1

\* QRBuilder::new(data) / ecl(level) / build().map_err(to_string)
new_qr_code_image(settings) ==
    LET ecl == IF settings.correction_level # "None"
               THEN settings.correction_level ELSE "L"
    IN  IF settings.data <= Capacity(ecl)
        THEN [ok |-> TRUE, val |-> [kind |-> "QRCode", of |-> settings.id]]
        ELSE [ok |-> FALSE, val |-> "DataTooLong"]

\* Result::map with ImageBuilder::to_pixmap, then SharedPixelBuffer::clone_from_slice
to_pixel_buffer(code) == [kind |-> "SharedPixelBuffer", of |-> code.of]

\* Weak::upgrade: Some exactly when the strong count is not zero.
upgrade(cnt) == cnt > 0

\* The channel is disconnected when the only Sender (inside the Rc) is dropped.
Disconnected == strong = 0

\* Variant: the sender is wrapped in a temporary Rc that is dropped at once.
new_thread_temporary_rc == [strong |-> 0, wpc |-> "recv"]

\* BackgroundThreadCommunicator::new_thread: one worker, one strong sender.
new_thread == [strong |-> 1, wpc |-> "recv"]

Init ==
    /\ comm = "alive"
    /\ strong = new_thread.strong
    /\ weak = 0
    /\ chan = <<>>
    /\ rxAlive = TRUE
    /\ ppc = "idle"
    /\ preq = NoReq
    /\ wpc = new_thread.wpc
    /\ qr_gen_req = NoReq
    /\ pix_buffer_result = NoResult
    /\ nattempts = 0
    /\ sent = <<>>
    /\ calls = <<>>
    /\ generated = <<>>
    /\ rendered = {}
    /\ discarded = {}
    /\ inflight = {}
    /\ drainBegin = 0
    /\ atStop = {}
    /\ log = [warn |-> 0, send_error |-> 0, callback_error |-> 0]

(***************************************************************************)
(* Main thread                                                             *)
(***************************************************************************)

\* get_weak_sender: Rc::downgrade(&self.sender)
GetWeakSender ==
    /\ comm = "alive"
    /\ ppc = "idle"
    /\ weak < MaxWeak
    /\ weak' = weak + 1
    /\ UNCHANGED <<comm, strong, ppc, preq, nattempts, atStop, chan, sent, log>>
    /\ UNCHANGED workerVars

\* A weak handle goes out of scope.
DropWeak ==
    /\ ppc = "idle"
    /\ weak > 0
    /\ weak' = weak - 1
    /\ UNCHANGED <<comm, strong, ppc, preq, nattempts, atStop, chan, sent, log>>
    /\ UNCHANGED workerVars

\* The ui callback fires: weak_sender.clone() is passed to generate_qr_code,
\* which builds the request's fields (main.rs lines 28, 42-43).
GenerateQrCode ==
    /\ ppc = "idle"
    /\ comm # "joined"
    /\ weak > 0
    /\ nattempts < MaxSends
    /\ \E len \in DataLens, ec \in EcInputs :
         preq' = [id |-> 0, data |-> len, correction_level |-> to_qr_enum(ec)]
    /\ weak' = weak + 1
    /\ nattempts' = nattempts + 1
    /\ ppc' = "upgrade"
    /\ UNCHANGED <<comm, strong, atStop, chan, sent, log>>
    /\ UNCHANGED workerVars

\* weak_sender.upgrade() returned Some(sender)
UpgradeSome ==
    /\ ppc = "upgrade"
    /\ upgrade(strong)
    /\ strong' = strong + 1
    /\ ppc' = "send"
    /\ UNCHANGED <<comm, weak, preq, nattempts, atStop, chan, sent, log>>
    /\ UNCHANGED workerVars

\* Variant: the None branch unwraps (as `.expect` would) and the thread panics.
UpgradeNone_expect ==
    /\ ppc = "upgrade"
    /\ ~upgrade(strong)
    /\ ppc' = "panicked"
    /\ UNCHANGED <<comm, strong, weak, preq, nattempts, atStop, chan, sent, log>>
    /\ UNCHANGED workerVars

\* weak_sender.upgrade() returned None: warn!, the request is dropped and
\* generate_qr_code returns (its weak_sender parameter is dropped).
UpgradeNone ==
    /\ ppc = "upgrade"
    /\ ~upgrade(strong)
    /\ log' = [log EXCEPT !.warn = @ + 1]
    /\ weak' = weak - 1
    /\ preq' = NoReq
    /\ ppc' = "idle"
    /\ UNCHANGED <<comm, strong, nattempts, atStop, chan, sent>>
    /\ UNCHANGED workerVars

\* sender.send(request): Ok while the Receiver exists, Err (logged) otherwise.
Send ==
    /\ ppc = "send"
    /\ IF rxAlive
       THEN LET r == [preq EXCEPT !.id = Len(sent) + 1]
            IN  /\ chan' = Append(chan, r)
                /\ sent' = Append(sent, r)
                /\ log' = log
       ELSE /\ log' = [log EXCEPT !.send_error = @ + 1]
            /\ UNCHANGED <<chan, sent>>
    /\ preq' = NoReq
    /\ ppc' = "drop"
    /\ UNCHANGED <<comm, strong, weak, nattempts, atStop>>
    /\ UNCHANGED workerVars

\* Variant: the upgraded Rc is kept (stored or forgotten) when the call returns.
DropSender_retains_sender ==
    /\ ppc = "drop"
    /\ weak' = weak - 1
    /\ ppc' = "idle"
    /\ UNCHANGED <<comm, strong, preq, nattempts, atStop, chan, sent, log>>
    /\ UNCHANGED workerVars

\* End of generate_qr_code: the upgraded Rc and the weak parameter are dropped.
DropSender ==
    /\ ppc = "drop"
    /\ strong' = strong - 1
    /\ weak' = weak - 1
    /\ ppc' = "idle"
    /\ UNCHANGED <<comm, preq, nattempts, atStop, chan, sent, log>>
    /\ UNCHANGED workerVars

\* Variant: stop_sender returns the handle without dropping the sender.
StopSender_keeps_sender ==
    /\ comm = "alive"
    /\ ppc = "idle"
    /\ comm' = "shut"
    /\ atStop' = inflight
    /\ UNCHANGED <<strong, weak, ppc, preq, nattempts, chan, sent, log>>
    /\ UNCHANGED workerVars

\* stop_sender: drop(self.sender); the join handle is returned.
StopSender ==
    /\ comm = "alive"
    /\ ppc = "idle"
    /\ strong' = strong - 1
    /\ comm' = "shut"
    /\ atStop' = inflight
    /\ UNCHANGED <<weak, ppc, preq, nattempts, chan, sent, log>>
    /\ UNCHANGED workerVars

\* JoinHandle::join returns once the worker thread has returned.
Join ==
    /\ comm = "shut"
    /\ ppc = "idle"
    /\ wpc = "stopped"
    /\ comm' = "joined"
    /\ UNCHANGED <<strong, weak, ppc, preq, nattempts, atStop, chan, sent, log>>
    /\ UNCHANGED workerVars

(***************************************************************************)
(* Worker thread: work_when_available                                      *)
(***************************************************************************)

\* Variant: the request is read without being removed from the channel.
RecvOk_peeks ==
    /\ wpc = "recv"
    /\ chan # <<>>
    /\ Len(generated) < MaxSends
    /\ qr_gen_req' = Head(chan)
    /\ wpc' = "try_recv"
    /\ UNCHANGED <<pix_buffer_result, calls, generated, rendered, discarded, inflight,
                   drainBegin, rxAlive, chan, sent, log>>
    /\ UNCHANGED mainVars

\* self.receiver.recv() returned Ok(request)
RecvOk ==
    /\ wpc = "recv"
    /\ chan # <<>>
    /\ qr_gen_req' = Head(chan)
    /\ chan' = Tail(chan)
    /\ wpc' = "try_recv"
    /\ UNCHANGED <<pix_buffer_result, calls, generated, rendered, discarded, inflight,
                   drainBegin, rxAlive, sent, log>>
    /\ UNCHANGED mainVars

\* Variant: the outer loop ignores the Err of recv and receives again.
RecvDisconnected_retry ==
    /\ wpc = "recv"
    /\ chan = <<>>
    /\ Disconnected
    /\ UNCHANGED vars

\* Variant: the outer loop uses try_recv, whose Err also means "empty".
RecvDisconnected_on_empty ==
    /\ wpc = "recv"
    /\ chan = <<>>
    /\ wpc' = "stopped"
    /\ rxAlive' = FALSE
    /\ UNCHANGED <<qr_gen_req, pix_buffer_result, calls, generated, rendered,
                   discarded, inflight, drainBegin, chan, sent, log>>
    /\ UNCHANGED mainVars

\* Variant: the disconnection is reported through the callback before the loop ends.
RecvDisconnected_reports_error ==
    /\ wpc = "recv"
    /\ chan = <<>>
    /\ Disconnected
    /\ calls' = Append(calls, [id |-> 0, result |-> [ok |-> FALSE, val |-> "Disconnected"],
                               delivery |-> "Ok"])
    /\ wpc' = "stopped"
    /\ rxAlive' = FALSE
    /\ UNCHANGED <<qr_gen_req, pix_buffer_result, generated, rendered,
                   discarded, inflight, drainBegin, chan, sent, log>>
    /\ UNCHANGED mainVars

\* Variant: the loop ends as soon as the sender is gone, whatever is still queued.
RecvDisconnected_ignores_queue ==
    /\ wpc = "recv"
    /\ Disconnected
    /\ wpc' = "stopped"
    /\ rxAlive' = FALSE
    /\ UNCHANGED <<qr_gen_req, pix_buffer_result, calls, generated, rendered,
                   discarded, inflight, drainBegin, chan, sent, log>>
    /\ UNCHANGED mainVars

\* self.receiver.recv() returned Err: the channel is empty and disconnected.
\* The loop ends, the thread returns and the Receiver is dropped.
RecvDisconnected ==
    /\ wpc = "recv"
    /\ chan = <<>>
    /\ Disconnected
    /\ wpc' = "stopped"
    /\ rxAlive' = FALSE
    /\ UNCHANGED <<qr_gen_req, pix_buffer_result, calls, generated, rendered, discarded,
                   inflight, drainBegin, chan, sent, log>>
    /\ UNCHANGED mainVars

\* Variant: the drained request is thrown away instead of replacing the candidate.
TryRecvOk_keeps_oldest ==
    /\ wpc = "try_recv"
    /\ chan # <<>>
    /\ discarded' = discarded \cup {Head(chan).id}
    /\ chan' = Tail(chan)
    /\ drainBegin' = IF drainBegin = 0 THEN Len(sent) ELSE drainBegin
    /\ UNCHANGED <<wpc, qr_gen_req, pix_buffer_result, calls, generated, rendered,
                   inflight, rxAlive, sent, log>>
    /\ UNCHANGED mainVars

\* Variant: the inner `while let` is an `if let`; at most one request is drained.
TryRecvOk_drains_one ==
    /\ wpc = "try_recv"
    /\ chan # <<>>
    /\ discarded' = discarded \cup {qr_gen_req.id}
    /\ qr_gen_req' = Head(chan)
    /\ chan' = Tail(chan)
    /\ wpc' = "generate"
    /\ drainBegin' = IF drainBegin = 0 THEN Len(sent) ELSE drainBegin
    /\ UNCHANGED <<pix_buffer_result, calls, generated, rendered, inflight, rxAlive, sent, log>>
    /\ UNCHANGED mainVars

\* self.receiver.try_recv() returned Ok(new_request): qr_gen_req = new_request
TryRecvOk ==
    /\ wpc = "try_recv"
    /\ chan # <<>>
    /\ discarded' = discarded \cup {qr_gen_req.id}
    /\ qr_gen_req' = Head(chan)
    /\ chan' = Tail(chan)
    /\ drainBegin' = IF drainBegin = 0 THEN Len(sent) ELSE drainBegin
    /\ UNCHANGED <<wpc, pix_buffer_result, calls, generated, rendered, inflight, rxAlive, sent, log>>
    /\ UNCHANGED mainVars

\* self.receiver.try_recv() returned Err (Empty or Disconnected): the drain ends.
TryRecvEmpty ==
    /\ wpc = "try_recv"
    /\ chan = <<>>
    /\ wpc' = "generate"
    /\ drainBegin' = IF drainBegin = 0 THEN Len(sent) ELSE drainBegin
    /\ UNCHANGED <<qr_gen_req, pix_buffer_result, calls, generated, rendered, discarded,
                   inflight, rxAlive, chan, sent, log>>
    /\ UNCHANGED mainVars

\* Variant: a generation error ends the iteration (`continue`) without the callback.
Generate_skips_callback_on_error ==
    /\ wpc = "generate"
    /\ generated' = Append(generated, qr_gen_req.id)
    /\ IF new_qr_code_image(qr_gen_req).ok
       THEN /\ inflight' = inflight \cup {qr_gen_req.id}
            /\ pix_buffer_result' = new_qr_code_image(qr_gen_req)
            /\ wpc' = "render"
            /\ UNCHANGED qr_gen_req
       ELSE /\ wpc' = "recv"
            /\ qr_gen_req' = NoReq
            /\ UNCHANGED <<inflight, pix_buffer_result>>
    /\ UNCHANGED <<calls, rendered, discarded, drainBegin, rxAlive, chan, sent, log>>
    /\ UNCHANGED mainVars

\* new_qr_code_image(qr_gen_req); an Err skips both map closures.
Generate ==
    /\ wpc = "generate"
    /\ inflight' = inflight \cup {qr_gen_req.id}
    /\ generated' = Append(generated, qr_gen_req.id)
    /\ pix_buffer_result' = new_qr_code_image(qr_gen_req)
    /\ wpc' = IF new_qr_code_image(qr_gen_req).ok THEN "render" ELSE "callback"
    /\ UNCHANGED <<qr_gen_req, calls, rendered, discarded, drainBegin, rxAlive,
                   chan, sent, log>>
    /\ UNCHANGED mainVars

\* Variant: before rendering the worker looks at the channel again and switches
\* to a request that arrived in the meantime.
Render_takes_latest ==
    /\ wpc = "render"
    /\ IF chan # <<>>
       THEN /\ qr_gen_req' = Head(chan)
            /\ chan' = Tail(chan)
            /\ discarded' = discarded \cup {qr_gen_req.id}
            /\ pix_buffer_result' = new_qr_code_image(Head(chan))
       ELSE /\ pix_buffer_result' = [ok |-> TRUE, val |-> to_pixel_buffer(pix_buffer_result.val)]
            /\ UNCHANGED <<qr_gen_req, chan, discarded>>
    /\ rendered' = rendered \cup {qr_gen_req'.id}
    /\ wpc' = "callback"
    /\ UNCHANGED <<calls, generated, inflight, drainBegin, rxAlive, sent, log>>
    /\ UNCHANGED mainVars

\* The two map closures: to_pixmap and SharedPixelBuffer::clone_from_slice.
Render ==
    /\ wpc = "render"
    /\ pix_buffer_result' = [ok |-> TRUE, val |-> to_pixel_buffer(pix_buffer_result.val)]
    /\ rendered' = rendered \cup {qr_gen_req.id}
    /\ wpc' = "callback"
    /\ UNCHANGED <<qr_gen_req, calls, generated, discarded, inflight, drainBegin, rxAlive,
                   chan, sent, log>>
    /\ UNCHANGED mainVars

\* Variant: the callback is handed to a detached thread; the loop goes on at once.
Callback_detached ==
    /\ wpc = "callback"
    /\ \E delivery \in {"Ok", "Err"} :
         /\ calls' = Append(calls, [id |-> qr_gen_req.id, result |-> pix_buffer_result,
                                    delivery |-> delivery])
         /\ log' = IF delivery = "Err"
                   THEN [log EXCEPT !.callback_error = @ + 1] ELSE log
    /\ qr_gen_req' = NoReq
    /\ pix_buffer_result' = NoResult
    /\ wpc' = "recv"
    /\ UNCHANGED <<inflight, generated, rendered, discarded, drainBegin, rxAlive, chan, sent>>
    /\ UNCHANGED mainVars

\* Variant: a delivery error is propagated and ends the loop.
Callback_error_ends_loop ==
    /\ wpc = "callback"
    /\ \E delivery \in {"Ok", "Err"} :
         /\ calls' = Append(calls, [id |-> qr_gen_req.id, result |-> pix_buffer_result,
                                    delivery |-> delivery])
         /\ log' = IF delivery = "Err"
                   THEN [log EXCEPT !.callback_error = @ + 1] ELSE log
         /\ wpc' = IF delivery = "Err" THEN "stopped" ELSE "recv"
         /\ rxAlive' = (delivery # "Err")
    /\ inflight' = inflight \ {qr_gen_req.id}
    /\ qr_gen_req' = NoReq
    /\ pix_buffer_result' = NoResult
    /\ UNCHANGED <<generated, rendered, discarded, drainBegin, chan, sent>>
    /\ UNCHANGED mainVars

\* Variant: the result is thrown away when the channel is already disconnected.
Callback_cancelled_by_shutdown ==
    /\ wpc = "callback"
    /\ IF Disconnected
       THEN UNCHANGED <<calls, log>>
       ELSE \E delivery \in {"Ok", "Err"} :
         /\ calls' = Append(calls, [id |-> qr_gen_req.id, result |-> pix_buffer_result,
                                    delivery |-> delivery])
         /\ log' = IF delivery = "Err"
                   THEN [log EXCEPT !.callback_error = @ + 1] ELSE log
    /\ inflight' = inflight \ {qr_gen_req.id}
    /\ qr_gen_req' = NoReq
    /\ pix_buffer_result' = NoResult
    /\ wpc' = "recv"
    /\ UNCHANGED <<generated, rendered, discarded, drainBegin, rxAlive, chan, sent>>
    /\ UNCHANGED mainVars

\* Variant: a delivery error makes the worker invoke the callback again.
Callback_retries_on_error ==
    /\ wpc = "callback"
    /\ \E delivery \in {"Ok", "Err"} :
         /\ calls' = Append(calls, [id |-> qr_gen_req.id, result |-> pix_buffer_result,
                                    delivery |-> delivery])
         /\ log' = IF delivery = "Err"
                   THEN [log EXCEPT !.callback_error = @ + 1] ELSE log
         /\ IF delivery = "Err" /\ Len(calls) < MaxSends
            THEN UNCHANGED <<wpc, qr_gen_req, pix_buffer_result, inflight>>
            ELSE /\ inflight' = inflight \ {qr_gen_req.id}
                 /\ qr_gen_req' = NoReq
                 /\ pix_buffer_result' = NoResult
                 /\ wpc' = "recv"
    /\ UNCHANGED <<generated, rendered, discarded, drainBegin, rxAlive, chan, sent>>
    /\ UNCHANGED mainVars

\* Variant: the outer `while let` is an `if let`; the thread returns after one dispatch.
Callback_single_shot ==
    /\ wpc = "callback"
    /\ \E delivery \in {"Ok", "Err"} :
         /\ calls' = Append(calls, [id |-> qr_gen_req.id, result |-> pix_buffer_result,
                                    delivery |-> delivery])
         /\ log' = IF delivery = "Err"
                   THEN [log EXCEPT !.callback_error = @ + 1] ELSE log
    /\ inflight' = inflight \ {qr_gen_req.id}
    /\ qr_gen_req' = NoReq
    /\ pix_buffer_result' = NoResult
    /\ wpc' = "stopped"
    /\ rxAlive' = FALSE
    /\ UNCHANGED <<generated, rendered, discarded, drainBegin, chan, sent>>
    /\ UNCHANGED mainVars

\* (*self.display_callback)(pix_buffer_result); an Err is logged; next iteration.
Callback ==
    /\ wpc = "callback"
    /\ \E delivery \in {"Ok", "Err"} :
         /\ calls' = Append(calls, [id |-> qr_gen_req.id, result |-> pix_buffer_result,
                                    delivery |-> delivery])
         /\ log' = IF delivery = "Err"
                   THEN [log EXCEPT !.callback_error = @ + 1] ELSE log
    /\ inflight' = inflight \ {qr_gen_req.id}
    /\ qr_gen_req' = NoReq
    /\ pix_buffer_result' = NoResult
    /\ wpc' = "recv"
    /\ UNCHANGED <<generated, rendered, discarded, drainBegin, rxAlive, chan, sent>>
    /\ UNCHANGED mainVars

Main ==
    \/ GetWeakSender
    \/ DropWeak
    \/ GenerateQrCode
    \/ UpgradeSome
    \/ UpgradeNone
    \/ Send
    \/ DropSender
    \/ StopSender
    \/ Join

Worker ==
    \/ RecvOk
    \/ RecvDisconnected
    \/ TryRecvOk
    \/ TryRecvEmpty
    \/ Generate
    \/ Render
    \/ Callback

Next == Main \/ Worker

Spec == Init /\ [][Next]_vars

\* The straight-line, non-blocking rest of generate_qr_code.
GenerateQrCodeRest == UpgradeSome \/ UpgradeNone \/ Send \/ DropSender

\* Every collaborator call returns, generate_qr_code runs to its end and a
\* blocked join is resumed.
FairSpec ==
    /\ Spec
    /\ WF_vars(Worker)
    /\ WF_vars(GenerateQrCodeRest)
    /\ WF_vars(Join)

TypeOK ==
    /\ comm \in {"alive", "shut", "joined"}
    /\ strong \in 0 .. 2
    /\ weak \in 0 .. MaxWeak + 1
    /\ ppc \in {"idle", "upgrade", "send", "drop"}
    /\ wpc \in {"recv", "try_recv", "generate", "render", "callback", "stopped"}
    /\ Len(sent) <= nattempts
    /\ nattempts <= MaxSends
    /\ rxAlive \in BOOLEAN

(***************************************************************************)
(* Properties                                                              *)
(***************************************************************************)

\* The worker's states as the design names them.
Idle == wpc \in {"recv", "try_recv"}
Rendering == wpc \in {"generate", "render", "callback"}
Stopped == wpc = "stopped"

\* The positions of the callback invocations made for request id.
CallsFor(id) == {i \in 1 .. Len(calls) : calls[i].id = id}

\* The generator rejects the payload of the request enqueued as number id.
Rejected(id) == ~new_qr_code_image(sent[id]).ok

\* C1 (coalescing): when every request ever enqueued (n >= 1 of them) was
\* enqueued before the worker's first non-blocking receive, at most one
\* callback invocation exists, it is for the last request Rn and carries
\* Rn's result, and once the worker has stopped there is exactly one.
C1_Coalescing ==
    (drainBegin >= 1 /\ drainBegin = Len(sent)) =>
        /\ Len(calls) <= 1
        /\ \A i \in 1 .. Len(calls) :
              /\ calls[i].id = Len(sent)
              /\ calls[i].result.ok = new_qr_code_image(sent[Len(sent)]).ok
        /\ \A id \in 1 .. Len(sent) - 1 : CallsFor(id) = {}
        /\ (Stopped => Len(calls) = 1)

C1_Witness ==
    /\ Stopped
    /\ drainBegin = 3
    /\ Len(sent) = 3
    /\ discarded = {1, 2}
    /\ Len(calls) = 1
    /\ calls[1].id = 3

\* C2 (at most one in flight): at most one request has had its generation
\* started without its callback having returned, and it is the worker's
\* current candidate while the worker is Rendering.
C2_AtMostOneInFlight ==
    /\ Cardinality(inflight) <= 1
    /\ inflight # {} => (wpc \in {"render", "callback"} /\ inflight = {qr_gen_req.id})

C2_Witness ==
    /\ inflight # {}
    /\ Len(calls) >= 1
    /\ chan # <<>>
    /\ ppc = "drop"

\* C3 (weak-handle invalidation): once stop_sender has returned, the strong
\* count is zero, so upgrading any weak handle yields None and no send is
\* in progress with an upgraded sender.
C3_WeakHandleInvalidated ==
    comm # "alive" => (~upgrade(strong) /\ ppc \notin {"send", "drop"})

C3_Witness ==
    /\ comm = "shut"
    /\ weak >= 1
    /\ log.warn >= 1
    /\ Len(sent) >= 1

\* C4 (clean shutdown): once stop_sender has been called and no strong
\* reference is left, the worker eventually stops and the join completes.
C4_CleanShutdown ==
    (comm = "shut" /\ strong = 0) ~> (Stopped /\ comm = "joined")

C4_Witness ==
    /\ comm = "joined"
    /\ Stopped
    /\ atStop # {}
    /\ Len(calls) >= 2

\* C5 (termination tied to the sender count): the worker enters Stopped only
\* from its blocking receive, with the channel empty and the strong count
\* zero, and in a Stopped state no strong reference exists.
C5_StoppedOnlyWhenDisconnected ==
    [][Stopped' => /\ strong' = 0
                   /\ (~Stopped => (wpc = "recv" /\ chan = <<>> /\ strong = 0))]_vars

C5_Witness ==
    /\ Stopped
    /\ strong = 0
    /\ Len(calls) >= 1
    /\ comm = "shut"

\* C6 (sender validity before shutdown): while the Communicator exists and
\* stop_sender has not been called the strong count is at least one, an
\* upgrade yields Some, and no upgrade has failed so far.
C6_SenderValidBeforeShutdown ==
    comm = "alive" => (strong >= 1 /\ upgrade(strong) /\ log.warn = 0)

C6_Witness ==
    /\ comm = "alive"
    /\ ppc = "send"
    /\ strong = 2
    /\ Len(sent) >= 1

\* C7 (error passthrough): for every dispatch of a request the generator
\* rejects, the renderer did not run, the callback invocation of that
\* dispatch (the only one for the request) carries Err with the message and
\* no artifact, and the worker is Rendering only while that invocation is
\* still to come.
C7_ErrorPassthrough ==
    /\ Len(calls) <= Len(generated)
    /\ \A k \in 1 .. Len(generated) :
          Rejected(generated[k]) =>
             /\ generated[k] \notin rendered
             /\ Cardinality(CallsFor(generated[k])) <= 1
             /\ IF k <= Len(calls)
                THEN /\ calls[k].id = generated[k]
                     /\ calls[k].result = [ok |-> FALSE, val |-> "DataTooLong"]
                     /\ (k = Len(generated) => ~Rendering \/ wpc = "generate")
                ELSE /\ k = Len(generated)
                     /\ wpc = "callback"
                     /\ pix_buffer_result = [ok |-> FALSE, val |-> "DataTooLong"]

C7_Witness ==
    /\ Len(calls) >= 1
    /\ Rejected(calls[1].id)
    /\ ~calls[1].result.ok
    /\ wpc = "recv"

\* C8 (delivery failure is not fatal): the step in which the callback
\* returns a delivery error takes the worker to its blocking receive with
\* the receiver alive and leaves the channel and the sender untouched, just
\* as a successful delivery does.
C8_DeliveryFailureNotFatal ==
    [][(Len(calls') = Len(calls) + 1 /\ calls'[Len(calls')].delivery = "Err") =>
          /\ wpc' = "recv"
          /\ rxAlive'
          /\ qr_gen_req' = NoReq
          /\ UNCHANGED <<chan, strong, sent, generated, rendered, discarded>>]_vars

C8_Witness ==
    /\ Len(calls) >= 2
    /\ calls[1].delivery = "Err"
    /\ calls[2].id > calls[1].id
    /\ calls[2].result.ok

\* C9 (submission after shutdown is a no-op): the step of generate_qr_code
\* whose upgrade fails enqueues nothing, invokes no callback, leaves the
\* channel, the strong count and the worker unchanged, logs one warning and
\* returns normally.
C9_FailedSendIsNoOp ==
    [][(ppc = "upgrade" /\ ~upgrade(strong) /\ ppc' # ppc) =>
          /\ ppc' = "idle"
          /\ log' = [log EXCEPT !.warn = @ + 1]
          /\ UNCHANGED <<chan, sent, calls, strong, comm>>
          /\ UNCHANGED workerVars]_vars

C9_Witness ==
    /\ log.warn >= 1
    /\ ppc = "idle"
    /\ chan # <<>>
    /\ strong = 0

\* C10 (shutdown does not cancel in-flight work): a request that was being
\* rendered when stop_sender was called stays in flight until its callback
\* is invoked, is never given more than one invocation, and has exactly one
\* by the time the worker is Stopped.
C10_InFlightCompletes ==
    \A id \in atStop :
        /\ Cardinality(CallsFor(id)) <= 1
        /\ (CallsFor(id) = {} => (id \in inflight /\ ~Stopped))
        /\ (Stopped => Cardinality(CallsFor(id)) = 1)
        /\ (CallsFor(id) # {} /\ ~Rejected(id) => id \in rendered)

C10_Witness ==
    /\ atStop # {}
    /\ Stopped
    /\ \A id \in atStop : Cardinality(CallsFor(id)) = 1

\* C11 (shutdown with no work): when stop_sender has been called and no
\* request was ever enqueued, the worker is at its blocking receive or
\* Stopped, it never drained, generated, rendered or called back, and the
\* join eventually succeeds with the worker Stopped.
C11_ShutdownWithNoWork ==
    /\ []((comm # "alive" /\ sent = <<>>) =>
             /\ wpc \in {"recv", "stopped"}
             /\ drainBegin = 0
             /\ generated = <<>>
             /\ rendered = {}
             /\ calls = <<>>)
    /\ ((comm = "shut" /\ sent = <<>>) ~>
             (comm = "joined" /\ Stopped /\ calls = <<>>))

C11_Witness ==
    /\ comm = "joined"
    /\ Stopped
    /\ sent = <<>>
    /\ calls = <<>>
    /\ generated = <<>>

\* The elements of a sequence.
Range(s) == {s[i] : i \in 1 .. Len(s)}

\* The number of requests the worker has removed from the channel so far;
\* the channel is FIFO, so these are the requests 1 .. Removed.
Removed == Len(sent) - Len(chan)

\* C12 (dispatch step): during the drain every non-blocking receive that
\* finds a request replaces the candidate with it and discards the old
\* candidate without generation or callback; the drain ends exactly at the
\* first receive that finds the channel empty, keeping the candidate; the
\* request then passed to the generator is the last one removed from the
\* channel, and no discarded request is ever generated or called back.
C12_DispatchStep ==
    [][/\ (wpc = "try_recv" /\ qr_gen_req' # qr_gen_req) =>
             /\ chan # <<>>
             /\ qr_gen_req' = Head(chan)
             /\ chan' = Tail(chan)
             /\ wpc' = "try_recv"
             /\ discarded' = discarded \cup {qr_gen_req.id}
             /\ UNCHANGED <<generated, calls, rendered>>
       /\ (wpc = "try_recv" /\ wpc' # wpc) =>
             /\ chan = <<>>
             /\ wpc' = "generate"
             /\ UNCHANGED <<qr_gen_req, chan, discarded>>
       /\ (generated' # generated) =>
             /\ generated' = Append(generated, qr_gen_req.id)
             /\ qr_gen_req.id = Removed
             /\ qr_gen_req = sent[Removed]
       /\ discarded' \cap (Range(generated') \cup {calls'[i].id : i \in 1 .. Len(calls')}) = {}
      ]_vars

C12_Witness ==
    /\ wpc = "render"
    /\ generated = <<2>>
    /\ discarded = {1}
    /\ chan # <<>>

\* C13 (one callback per dispatch): the k-th callback invocation belongs to
\* the k-th dispatch; the dispatches outnumber the invocations by one
\* exactly while the worker is rendering or invoking the callback, and by
\* none otherwise; the invocations never outnumber the requests enqueued;
\* and the step that invokes the callback takes the worker back to Idle
\* whatever the generation result and the delivery result are.
C13_OneCallbackPerDispatch ==
    [][/\ Len(calls') <= Len(generated')
       /\ Len(generated') <= Len(sent')
       /\ Len(generated') - Len(calls') = (IF wpc' \in {"render", "callback"} THEN 1 ELSE 0)
       /\ \A k \in 1 .. Len(calls') : calls'[k].id = generated'[k]
       /\ (calls' # calls) =>
             /\ Len(calls') = Len(calls) + 1
             /\ wpc = "callback"
             /\ wpc' = "recv"
             /\ calls'[Len(calls')].result = pix_buffer_result
      ]_vars

C13_Witness ==
    /\ Len(calls) = 3
    /\ wpc = "recv"
    /\ \E i \in 1 .. 3 : ~calls[i].result.ok
    /\ \E i \in 1 .. 3 : calls[i].result.ok /\ calls[i].delivery = "Err"
    /\ \E i \in 1 .. 3 : calls[i].result.ok /\ calls[i].delivery = "Ok"

\* C14 (upgrade is the only fallible producer step): the Receiver exists in
\* every state in which a strong reference to the sender exists, so a send
\* that follows a successful upgrade enqueues its request, and the
\* send-error branch of generate_qr_code has never been taken.
C14_SendNeverFails ==
    /\ upgrade(strong) => rxAlive
    /\ ppc = "send" => (rxAlive /\ ~Stopped)
    /\ log.send_error = 0
    /\ Len(sent) + log.warn + (IF ppc \in {"upgrade", "send"} THEN 1 ELSE 0) = nattempts

C14_Witness ==
    /\ ppc = "drop"
    /\ Len(sent) = 2
    /\ Len(calls) >= 1
    /\ log.warn = 0
    /\ nattempts = 2

\* The strong references the Communicator itself holds.
OwnerRefs == IF comm = "alive" THEN 1 ELSE 0

\* C15 (producers do not retain the sender): a step that creates, clones or
\* drops a weak handle outside the end of a send leaves the strong count
\* unchanged; the strong count exceeds the Communicator's own reference by
\* one exactly between a successful upgrade and the end of that send, so a
\* completed send leaves it as it was; and with stop_sender called and no
\* send in progress it is zero.
C15_ProducersDoNotRetainSender ==
    [][/\ (weak' # weak /\ ppc # "drop") => strong' = strong
       /\ strong' = OwnerRefs' + (IF ppc' \in {"send", "drop"} THEN 1 ELSE 0)
       /\ (ppc = "drop" /\ ppc' = "idle") => strong' = strong - 1
       /\ (ppc = "upgrade" /\ ppc' = "send") => strong' = strong + 1
       /\ (comm' # "alive" /\ ppc' = "idle") => strong' = 0
      ]_vars

C15_Witness ==
    /\ comm = "shut"
    /\ ppc = "idle"
    /\ strong = 0
    /\ Len(sent) = 2
    /\ weak = 1
    /\ log.warn = 1

\* What the callback receives for the request enqueued as number id.
ResultOf(id) ==
    IF new_qr_code_image(sent[id]).ok
    THEN [ok |-> TRUE, val |-> to_pixel_buffer(new_qr_code_image(sent[id]).val)]
    ELSE new_qr_code_image(sent[id])

\* C16 (the latest request is never lost): a Stopped worker has left
\* nothing in the channel and, if any request was enqueued, its last
\* callback invocation is for the last request enqueued and carries that
\* request's result; every discarded request was followed out of the
\* channel by a request enqueued after it.
C16_LatestNeverLost ==
    /\ Stopped =>
          /\ chan = <<>>
          /\ sent # <<>> =>
                /\ calls # <<>>
                /\ calls[Len(calls)].id = Len(sent)
                /\ calls[Len(calls)].result = ResultOf(Len(sent))
    /\ \A id \in discarded : id < Removed

C16_Witness ==
    /\ Stopped
    /\ atStop = {1}
    /\ Len(sent) = 3
    /\ Len(calls) = 2
    /\ calls[2].id = 3
    /\ discarded = {2}

\* A sequence of ids strictly increases.
StrictlyIncreasing(ids) == \A i, j \in 1 .. Len(ids) : i < j => ids[i] < ids[j]

\* C17 (consumed at most once, in order): the channel always holds exactly
\* the most recently enqueued requests not yet removed, in enqueue order, so
\* a request leaves it at most once; a removed request is the candidate,
\* discarded or dispatched, and only one of these; no request is dispatched
\* twice; and the dispatched and the called-back requests appear in
\* strictly increasing enqueue order.
C17_ConsumedOnceInOrder ==
    /\ Removed >= 0
    /\ chan = SubSeq(sent, Removed + 1, Len(sent))
    /\ StrictlyIncreasing(generated)
    /\ StrictlyIncreasing([k \in 1 .. Len(calls) |-> calls[k].id])
    /\ \A id \in 1 .. Len(sent) : Cardinality(CallsFor(id)) <= 1
    /\ discarded \cap Range(generated) = {}
    /\ LET held == IF wpc \in {"try_recv", "generate"} THEN {qr_gen_req.id} ELSE {}
       IN  /\ discarded \cup Range(generated) \cup held = 1 .. Removed
           /\ held \cap (discarded \cup Range(generated)) = {}

C17_Witness ==
    /\ Len(calls) = 2
    /\ calls[1].id = 1
    /\ calls[2].id = 3
    /\ discarded = {2}
    /\ wpc = "recv"
    /\ comm = "alive"

\* s is a prefix of t.
IsPrefix(s, t) == Len(s) <= Len(t) /\ SubSeq(t, 1, Len(s)) = s

\* C18 (cross-window behaviour): while the worker is Rendering no step
\* removes anything from the channel (requests are only appended) and none
\* changes the candidate; the callback invocation that ends the dispatch is
\* for that candidate with that candidate's result; the next blocking
\* receive takes the oldest request waiting in the channel, and the drain
\* that follows replaces it by the requests enqueued after it.
C18_CrossWindow ==
    [][/\ Rendering =>
             /\ IsPrefix(chan, chan')
             /\ Rendering' => qr_gen_req' = qr_gen_req
             /\ ~Rendering' =>
                   /\ wpc' = "recv"
                   /\ calls' = Append(calls, calls'[Len(calls')])
                   /\ calls'[Len(calls')].id = qr_gen_req.id
                   /\ calls'[Len(calls')].result = ResultOf(qr_gen_req.id)
       /\ (wpc = "recv" /\ wpc' = "try_recv") =>
             /\ qr_gen_req' = Head(chan)
             /\ chan' = Tail(chan)
             /\ qr_gen_req'.id = IF generated = <<>> /\ discarded = {}
                                 THEN 1 ELSE generated[Len(generated)] + 1
       /\ (wpc = "try_recv" /\ wpc' = "try_recv" /\ qr_gen_req' # qr_gen_req) =>
             qr_gen_req'.id = qr_gen_req.id + 1
      ]_vars

C18_Witness ==
    /\ wpc = "try_recv"
    /\ calls # <<>>
    /\ calls[1].id = 1
    /\ qr_gen_req.id = 3
    /\ discarded = {2}
    /\ generated = <<1>>
====
